---- MODULE Spec2Model ----
(***************************************************************************)
(* A model of rotate_cubemap_faces.py: main() and rotate_face(), the file  *)
(* system they see, the diagnostics they print and the resources they      *)
(* hold.  Strings are sequences of one-character strings, so that          *)
(* os.path.join, os.path.splitext and os.path.basename are computed the    *)
(* way posixpath computes them.                                            *)
(***************************************************************************)
EXTENDS Integers, Sequences, FiniteSets, TLC

VARIABLES
    pc,               \* position in main / rotate_face
    argv,             \* sys.argv[1:] : <<>> or <<directory>>
    dirs,             \* the directories that exist
    fs,               \* the files that exist: path -> content
    fs0,              \* fs when the run started
    out,              \* the lines printed so far
    base_path, top_face_path, bottom_face_path,      \* locals of main
    rotated_top, rotated_bottom,                     \* locals of main
    face,             \* the call site rotate_face is running for
    file_path, img, rotated_img, output_path, exc,   \* locals of rotate_face
    ret,              \* the value rotate_face returned last
    handles,          \* paths with an open file object
    buffers,          \* decoded pixel buffers still allocated
    calls,            \* the arguments rotate_face was called with, in order
    saveEnv,          \* face -> what Image.save met on that face
    touched,          \* face -> the paths the face's processing looked at or wrote
    rotations         \* how often the rotation was applied (the rotation alone)

vars == << pc, argv, dirs, fs, fs0, out, base_path, top_face_path,
           bottom_face_path, rotated_top, rotated_bottom, face, file_path, img,
           rotated_img, output_path, exc, ret, handles, buffers, calls,
           saveEnv, touched, rotations >>

(***************************************************************************)
(* Bounds of the pure-rotation specification.                              *)
(***************************************************************************)
MaxW == 2
MaxH == 2
MaxPix == 1
MaxRotations == 4

None == "None"                                 \* no exception
NoneVal == [some |-> FALSE, val |-> << >>]      \* the value None
Some(v) == [some |-> TRUE, val |-> v]           \* a str value
Faces == {"top", "bottom"}

(***************************************************************************)
(* Strings and paths                                                       *)
(***************************************************************************)
SEP == "/"
DOT == "."
U_JPG == << "u", ".", "j", "p", "g" >>
D_JPG == << "d", ".", "j", "p", "g" >>
ROTATED == << "_", "r", "o", "t", "a", "t", "e", "d" >>
U_ROTATED_JPG == << "u", "_", "r", "o", "t", "a", "t", "e", "d", ".", "j", "p", "g" >>
D_ROTATED_JPG == << "d", "_", "r", "o", "t", "a", "t", "e", "d", ".", "j", "p", "g" >>
EXT_JPG == << ".", "j", "p", "g" >>
PUBLIC == << "p", "u", "b", "l", "i", "c" >>
VR == << "v", "r" >>
WILLOW == << "w", "i", "l", "l", "o", "w" >>
V1_DIR == << "v", ".", "1" >>

\* str.rfind(c) + 1: the last position of c in s, 0 when there is none
RFind(s, c) ==
    LET hits == {i \in 1..Len(s) : s[i] = c}
    IN  IF hits = {} THEN 0 ELSE CHOOSE i \in hits : \A j \in hits : j <= i

\* posixpath.join(a, b)
join(a, b) ==
    IF Len(b) > 0 /\ b[1] = SEP THEN b
    ELSE IF Len(a) = 0 \/ a[Len(a)] = SEP THEN a \o b
    ELSE a \o << SEP >> \o b

\* posixpath.splitext(p) = <<root, ext>>
splitext(p) ==
    LET sepIndex == RFind(p, SEP)
        dotIndex == RFind(p, DOT)
    IN  IF /\ dotIndex > sepIndex
           /\ \E k \in (sepIndex + 1)..(dotIndex - 1) : p[k] # DOT
        THEN << SubSeq(p, 1, dotIndex - 1), SubSeq(p, dotIndex, Len(p)) >>
        ELSE << p, << >> >>

\* posixpath.basename(p)
basename(p) == SubSeq(p, RFind(p, SEP) + 1, Len(p))

\* the path the file system resolves: a trailing separator names the same directory
NormDir(p) ==
    IF Len(p) > 1 /\ p[Len(p)] = SEP THEN SubSeq(p, 1, Len(p) - 1) ELSE p

\* os.path.join("public", "vr", "willow")
DEFAULT_DIR == join(join(PUBLIC, VR), WILLOW)

isdir(p) == NormDir(p) \in dirs
isfile(fsys, p) == p \in DOMAIN fsys

\* the rotation saved over its input
OutputPath_InPlace(p) == p

\* the suffix and the extension without the base name
OutputPath_NoBase(p) == SubSeq(p, 1, RFind(p, SEP)) \o ROTATED \o splitext(p)[2]

\* f"{base}_rotated{ext}"
OutputPath(p) == splitext(p)[1] \o ROTATED \o splitext(p)[2]

(***************************************************************************)
(* Images: a size and the rows of pixels, top row first                    *)
(***************************************************************************)
NoImage == [w |-> 0, h |-> 0, rows |-> << >>]

ImagesOf(w, h) ==
    { [w |-> w, h |-> h, rows |-> r] : r \in [1..h -> [1..w -> 0..MaxPix]] }

Images == UNION { ImagesOf(w, h) : w \in 1..MaxW, h \in 1..MaxH }

Reverse(s) == [i \in 1..Len(s) |-> s[Len(s) + 1 - i]]

Pixel(im, x, y) == im.rows[y + 1][x + 1]

\* a quarter turn: the result of a wrong angle
rotate90(im) ==
    [w |-> im.h, h |-> im.w,
     rows |-> [y \in 1..im.w |-> [x \in 1..im.h |-> im.rows[im.h + 1 - x][y]]]]

\* a mirror: the rows are reversed, their order is not
mirror(im) ==
    [w |-> im.w, h |-> im.h, rows |-> [y \in 1..im.h |-> Reverse(im.rows[y])]]

\* Image.rotate(180) = transpose(ROTATE_180): rows in reverse order, each reversed
rotate180(im) ==
    [w |-> im.w, h |-> im.h,
     rows |-> Reverse([y \in 1..im.h |-> Reverse(im.rows[y])])]

(***************************************************************************)
(* File contents                                                           *)
(***************************************************************************)
TopImage == [w |-> 2, h |-> 2, rows |-> << << 0, 1 >>, << 2, 2 >> >>]
BottomImage == [w |-> 2, h |-> 1, rows |-> << << 1, 0 >> >>]
OldImage == [w |-> 1, h |-> 1, rows |-> << << 2 >> >>]

ImageFile(fmt, im) == [kind |-> "image", fmt |-> fmt, img |-> im]
TruncatedFile == [kind |-> "truncated", fmt |-> "JPEG", img |-> NoImage]
GarbageFile == [kind |-> "garbage", fmt |-> "", img |-> NoImage]
PartialFile == [kind |-> "partial", fmt |-> "", img |-> NoImage]

\* the format Image.save derives from the extension of the output path
FormatOf(ext) == IF ext = EXT_JPG THEN "JPEG" ELSE "unknown"

\* what Image.save can meet: it writes the file; it may not open the file; it
\* fails after it has opened the file for writing
SaveEnvs == {"ok", "denied", "midwrite"}

\* rotated_img.save(output_path) on the file system fsys, meeting env.  The file
\* is opened "w+b", which empties a file already there; after a failed write
\* Image.save removes the file only if the open created it.
Save(fsys, path, im, env) ==
    LET created == path \notin DOMAIN fsys
        put(c) == [p \in DOMAIN fsys \cup {path} |-> IF p = path THEN c ELSE fsys[p]]
    IN  CASE FormatOf(splitext(path)[2]) = "unknown" -> fsys
          [] env = "ok" -> put(ImageFile(FormatOf(splitext(path)[2]), im))
          [] env = "denied" -> fsys
          [] OTHER -> IF created THEN fsys ELSE put(PartialFile)

\* the error Image.save raises, None when it returns
SaveError(path, env) ==
    CASE FormatOf(splitext(path)[2]) = "unknown" -> "ValueError"
      [] env = "ok" -> None
      [] env = "denied" -> "PermissionError"
      [] OTHER -> "OSError"

\* except ValueError
ExceptionMatches_ValueErrorOnly(e) == e = "ValueError"

\* except Exception
ExceptionMatches(e) ==
    e \in {"UnidentifiedImageError", "OSError", "PermissionError", "ValueError"}

\* the instruction printed without the test
Truthy_Always(v) == TRUE

\* a non-empty str is true, None is false
Truthy(v) == v.some /\ Len(v.val) > 0

Line(msg, arg) == [msg |-> msg, arg |-> arg]

(***************************************************************************)
(* The states a run can start in                                           *)
(***************************************************************************)
AbsentFile == [kind |-> "absent", fmt |-> "", img |-> NoImage]
FaceOptions(im) == {AbsentFile, ImageFile("JPEG", im), TruncatedFile, GarbageFile}
OutputOptions == {AbsentFile, ImageFile("JPEG", OldImage)}
FileNames == {U_JPG, D_JPG, U_ROTATED_JPG, D_ROTATED_JPG}

ContentChoices ==
    { [n \in FileNames |->
          CASE n = U_JPG -> a [] n = D_JPG -> b [] n = U_ROTATED_JPG -> c [] OTHER -> d]
      : a \in FaceOptions(TopImage), b \in FaceOptions(BottomImage),
        c \in OutputOptions, d \in OutputOptions }

\* the directory d holding the files c gives it
Populated(d, c) ==
    [p \in {join(d, n) : n \in {m \in FileNames : c[m].kind # "absent"}}
        |-> c[basename(p)]]

EmptyFs == [p \in {} |-> AbsentFile]
FileSystems(ds) == {EmptyFs} \cup {Populated(d, c) : d \in ds, c \in ContentChoices}

ArgvChoices == { << >>, << V1_DIR >>, << V1_DIR \o << SEP >> >> }
DirChoices == SUBSET {DEFAULT_DIR, V1_DIR}

Idle ==
    /\ out = << >>
    /\ base_path = << >> /\ top_face_path = << >> /\ bottom_face_path = << >>
    /\ rotated_top = NoneVal /\ rotated_bottom = NoneVal
    /\ face = "none"
    /\ file_path = << >> /\ output_path = << >> /\ exc = None
    /\ ret = NoneVal
    /\ handles = {} /\ buffers = {}
    /\ calls = << >>
    /\ saveEnv = [f \in Faces |-> "none"]
    /\ touched = [f \in Faces |-> {}]

Init ==
    /\ pc = "main"
    /\ argv \in ArgvChoices
    /\ dirs \in DirChoices
    /\ fs \in FileSystems(dirs)
    /\ fs0 = fs
    /\ img = NoImage /\ rotated_img = NoImage
    /\ rotations = 0
    /\ Idle

(***************************************************************************)
(* main                                                                    *)
(***************************************************************************)
MainLocals == << base_path, top_face_path, bottom_face_path >>
RfLocals == << file_path, img, rotated_img, output_path, exc >>
Resources == << handles, buffers >>
World == << argv, dirs, fs, fs0, rotations >>

FacePath(f) == IF f = "top" THEN top_face_path ELSE bottom_face_path
FaceName(f) == IF f = "top" THEN U_JPG ELSE D_JPG
CheckPc(f) == IF f = "top" THEN "top_check" ELSE "bottom_check"
AfterPc(f) == IF f = "top" THEN "top_after" ELSE "bottom_after"
NextPc(f) == IF f = "top" THEN "bottom_check" ELSE "finish"

Touch(f, p) == [touched EXCEPT ![f] = @ \cup {p}]

\* if len(sys.argv) > 1: base_path = sys.argv[1] else: the default
ParseArgs ==
    /\ pc = "main"
    /\ base_path' = IF Len(argv) > 0 THEN argv[1] ELSE DEFAULT_DIR
    /\ pc' = "check_dir"
    /\ UNCHANGED << World, out, top_face_path, bottom_face_path, rotated_top,
                    rotated_bottom, face, RfLocals, ret, Resources, calls,
                    saveEnv, touched >>

\* the directory check without its return
DirMissing_NoReturn ==
    /\ pc = "check_dir"
    /\ ~isdir(base_path)
    /\ out' = Append(out, Line("dir_missing", base_path))
    /\ top_face_path' = join(base_path, U_JPG)
    /\ bottom_face_path' = join(base_path, D_JPG)
    /\ pc' = "top_check"
    /\ UNCHANGED << World, base_path, rotated_top, rotated_bottom, face,
                    RfLocals, ret, Resources, calls, saveEnv, touched >>

\* if not os.path.isdir(base_path): print; return
DirMissing ==
    /\ pc = "check_dir"
    /\ ~isdir(base_path)
    /\ out' = Append(out, Line("dir_missing", base_path))
    /\ pc' = "done"
    /\ UNCHANGED << World, MainLocals, rotated_top, rotated_bottom, face,
                    RfLocals, ret, Resources, calls, saveEnv, touched >>

\* the directory exists: print, and build the two face paths
DirFound ==
    /\ pc = "check_dir"
    /\ isdir(base_path)
    /\ out' = Append(out, Line("processing", base_path))
    /\ top_face_path' = join(base_path, U_JPG)
    /\ bottom_face_path' = join(base_path, D_JPG)
    /\ pc' = "top_check"
    /\ UNCHANGED << World, base_path, rotated_top, rotated_bottom, face,
                    RfLocals, ret, Resources, calls, saveEnv, touched >>

\* a missing face ending the run
FaceMissing_Return(f) ==
    /\ pc = CheckPc(f)
    /\ ~isfile(fs, FacePath(f))
    /\ out' = Append(out, Line("face_missing", FacePath(f)))
    /\ touched' = Touch(f, FacePath(f))
    /\ pc' = "finish"
    /\ UNCHANGED << World, MainLocals, rotated_top, rotated_bottom, face,
                    RfLocals, ret, Resources, calls, saveEnv >>

\* if not os.path.isfile(path): print
FaceMissing(f) ==
    /\ pc = CheckPc(f)
    /\ ~isfile(fs, FacePath(f))
    /\ out' = Append(out, Line("face_missing", FacePath(f)))
    /\ touched' = Touch(f, FacePath(f))
    /\ pc' = NextPc(f)
    /\ UNCHANGED << World, MainLocals, rotated_top, rotated_bottom, face,
                    RfLocals, ret, Resources, calls, saveEnv >>

\* else: rotate_face(path)
CallRotateFace(f) ==
    /\ pc = CheckPc(f)
    /\ isfile(fs, FacePath(f))
    /\ face' = f
    /\ file_path' = FacePath(f)
    /\ calls' = Append(calls, FacePath(f))
    /\ touched' = Touch(f, FacePath(f))
    /\ pc' = "rf_open"
    /\ UNCHANGED << World, out, MainLocals, rotated_top, rotated_bottom, img,
                    rotated_img, output_path, exc, ret, Resources, saveEnv >>

\* rotated_x = <the value returned>; if rotated_x: print the rename instruction
AfterRotate(f) ==
    /\ pc = AfterPc(f)
    /\ IF f = "top"
       THEN rotated_top' = ret /\ UNCHANGED rotated_bottom
       ELSE rotated_bottom' = ret /\ UNCHANGED rotated_top
    /\ out' = IF Truthy(ret)
              THEN Append(out, [msg |-> "rename", arg |-> basename(ret.val),
                                to |-> FaceName(f)])
              ELSE out
    /\ pc' = NextPc(f)
    /\ UNCHANGED << World, MainLocals, face, RfLocals, ret, Resources, calls,
                    saveEnv, touched >>

\* the two closing prints
Finish ==
    /\ pc = "finish"
    /\ out' = out \o << Line("done", << >>), Line("note", << >>) >>
    /\ pc' = "done"
    /\ UNCHANGED << World, MainLocals, rotated_top, rotated_bottom, face,
                    RfLocals, ret, Resources, calls, saveEnv, touched >>

(***************************************************************************)
(* rotate_face                                                             *)
(***************************************************************************)
\* img = Image.open(file_path): the header is read, the file object stays open
RfOpen ==
    /\ pc = "rf_open"
    /\ IF fs[file_path].kind \in {"image", "truncated"}
       THEN /\ img' = fs[file_path].img
            /\ handles' = handles \cup {file_path}
            /\ exc' = None
            /\ pc' = "rf_rotate"
       ELSE /\ exc' = "UnidentifiedImageError"
            /\ pc' = "rf_except"
            /\ UNCHANGED << img, handles >>
    /\ UNCHANGED << World, out, MainLocals, rotated_top, rotated_bottom, face,
                    file_path, rotated_img, output_path, ret, buffers, calls,
                    saveEnv, touched >>

\* rotated_img = img.rotate(180): loads the pixels, which closes the file object
\* when the load succeeds, then transposes
RfRotate ==
    /\ pc = "rf_rotate"
    /\ IF fs[file_path].kind = "image"
       THEN /\ rotated_img' = rotate180(img)
            /\ handles' = handles \ {file_path}
            /\ buffers' = buffers \cup {"img", "rotated_img"}
            /\ pc' = "rf_path"
            /\ UNCHANGED exc
       ELSE /\ exc' = "OSError"
            /\ pc' = "rf_except"
            /\ UNCHANGED << rotated_img, handles, buffers >>
    /\ UNCHANGED << World, out, MainLocals, rotated_top, rotated_bottom, face,
                    file_path, img, output_path, ret, calls, saveEnv, touched >>

\* base, ext = os.path.splitext(file_path); output_path = f"{base}_rotated{ext}"
RfOutputPath ==
    /\ pc = "rf_path"
    /\ output_path' = OutputPath(file_path)
    /\ pc' = "rf_save"
    /\ UNCHANGED << World, out, MainLocals, rotated_top, rotated_bottom, face,
                    file_path, img, rotated_img, exc, ret, Resources, calls,
                    saveEnv, touched >>

\* rotated_img.save(output_path)
RfSave ==
    /\ pc = "rf_save"
    /\ \E env \in SaveEnvs :
          /\ fs' = Save(fs, output_path, rotated_img, env)
          /\ exc' = SaveError(output_path, env)
          /\ saveEnv' = [saveEnv EXCEPT ![face] = env]
          /\ pc' = IF SaveError(output_path, env) = None THEN "rf_ok" ELSE "rf_except"
    /\ touched' = Touch(face, output_path)
    /\ UNCHANGED << argv, dirs, fs0, rotations, out, MainLocals, rotated_top,
                    rotated_bottom, face, file_path, img, rotated_img,
                    output_path, ret, Resources, calls >>

\* the frame of rotate_face ends: its locals die; the objects they named are
\* finalized now or left to a later collection
Return(v) ==
    /\ ret' = v
    /\ pc' = AfterPc(face)
    /\ face' = "none"
    /\ file_path' = << >> /\ output_path' = << >> /\ exc' = None
    /\ img' = NoImage /\ rotated_img' = NoImage
    /\ \E finalized \in BOOLEAN :
          IF finalized THEN handles' = {} /\ buffers' = {}
                       ELSE UNCHANGED << handles, buffers >>

\* print the saved-as line; return output_path
RfReturnPath ==
    /\ pc = "rf_ok"
    /\ out' = Append(out, Line("saved", output_path))
    /\ Return(Some(output_path))
    /\ UNCHANGED << World, MainLocals, rotated_top, rotated_bottom, calls,
                    saveEnv, touched >>

\* except Exception as e: print the error line; return None
RfExcept ==
    /\ pc = "rf_except"
    /\ IF ExceptionMatches(exc)
       THEN /\ out' = Append(out, [msg |-> "error", arg |-> file_path, err |-> exc])
            /\ Return(NoneVal)
       ELSE /\ pc' = "crashed"
            /\ UNCHANGED << out, face, RfLocals, ret, Resources >>
    /\ UNCHANGED << World, MainLocals, rotated_top, rotated_bottom, calls,
                    saveEnv, touched >>

TopMissing == FaceMissing("top")
TopCall == CallRotateFace("top")
TopAfter == AfterRotate("top")
BottomMissing == FaceMissing("bottom")
BottomCall == CallRotateFace("bottom")
BottomAfter == AfterRotate("bottom")

Next ==
    \/ ParseArgs
    \/ DirMissing
    \/ DirFound
    \/ TopMissing
    \/ TopCall
    \/ TopAfter
    \/ BottomMissing
    \/ BottomCall
    \/ BottomAfter
    \/ RfOpen
    \/ RfRotate
    \/ RfOutputPath
    \/ RfSave
    \/ RfReturnPath
    \/ RfExcept
    \/ Finish

Spec == Init /\ [][Next]_vars

\* the interpreter runs the next statement as long as there is one
FairSpec == Spec /\ WF_vars(Next)

(***************************************************************************)
(* The rotation alone, on every image within the bounds                    *)
(***************************************************************************)
RotInit ==
    /\ pc = "rotate"
    /\ img \in Images
    /\ rotated_img = img
    /\ rotations = 0
    /\ argv = << >> /\ dirs = {} /\ fs = EmptyFs /\ fs0 = EmptyFs
    /\ Idle

RotUnchanged ==
    UNCHANGED << pc, argv, dirs, fs, fs0, out, MainLocals, rotated_top,
                 rotated_bottom, face, file_path, img, output_path, exc, ret,
                 Resources, calls, saveEnv, touched >>

\* rotated_img = img.rotate(180)
RotOnce ==
    /\ pc = "rotate"
    /\ rotations = 0
    /\ rotated_img' = rotate180(img)
    /\ rotations' = 1
    /\ RotUnchanged

\* the rotation applied to its own result
RotAgain ==
    /\ pc = "rotate"
    /\ rotations \in 1..(MaxRotations - 1)
    /\ rotated_img' = rotate180(rotated_img)
    /\ rotations' = rotations + 1
    /\ RotUnchanged

RotNext == RotOnce \/ RotAgain

RotSpec == RotInit /\ [][RotNext]_vars

(***************************************************************************)
(* One face, as a function of the file system: what main and rotate_face   *)
(* do to the files for the face at path when Image.save meets env          *)
(***************************************************************************)
FaceOp(fsys, path, env) ==
    IF ~isfile(fsys, path) THEN fsys
    ELSE IF fsys[path].kind # "image" THEN fsys
    ELSE Save(fsys, OutputPath(path), rotate180(fsys[path].img), env)

(***************************************************************************)
(* What a run shows: the lines printed, the files changed                  *)
(***************************************************************************)
Done == pc = "done"
DirExists == isdir(base_path)
LinesOf(msg) == {i \in 1..Len(out) : out[i].msg = msg}
LinesAbout(msg, arg) == {i \in LinesOf(msg) : out[i].arg = arg}
TimesCalled(p) == Cardinality({i \in 1..Len(calls) : calls[i] = p})
RotatedName(f) == IF f = "top" THEN U_ROTATED_JPG ELSE D_ROTATED_JPG
InputOf(f) == join(base_path, FaceName(f))
OutputOf(f) == join(base_path, RotatedName(f))
Same(p) ==
    /\ p \in DOMAIN fs <=> p \in DOMAIN fs0
    /\ p \in DOMAIN fs => fs[p] = fs0[p]
Returned(f) == IF f = "top" THEN rotated_top ELSE rotated_bottom
RenameLines(f) ==
    {i \in LinesOf("rename") : out[i].to = FaceName(f) /\ out[i].arg = RotatedName(f)}

\* the terminal outcomes the printed lines show for a face
Outcomes(f) ==
    {o \in {"absent", "success", "failure"} :
        \/ o = "absent" /\ LinesAbout("face_missing", InputOf(f)) # {}
        \/ o = "success" /\ LinesAbout("saved", OutputOf(f)) # {}
        \/ o = "failure" /\ LinesAbout("error", InputOf(f)) # {}}

SomeDir == {DEFAULT_DIR, V1_DIR}
FaceFiles == {join(d, n) : d \in SomeDir, n \in {U_JPG, D_JPG}}

(***************************************************************************)
(* C1: a run never modifies the input faces: at every point of every run   *)
(* u.jpg and d.jpg are what they were when the run started, and the path   *)
(* rotate_face writes to is never the path it was given.                   *)
(***************************************************************************)
C1_InputsUntouched ==
    /\ \A p \in FaceFiles : Same(p)
    /\ \A i \in 1..Len(calls) : Same(calls[i]) /\ OutputPath(calls[i]) # calls[i]
    /\ pc \in {"rf_save", "rf_ok"} => output_path # file_path
    /\ \A f \in Faces : saveEnv[f] # "none" => InputOf(f) \in DOMAIN fs

C1_Witness ==
    /\ Done
    /\ LinesOf("saved") # {}
    /\ \E f \in Faces : saveEnv[f] = "ok" /\ ~Same(OutputOf(f)) /\ Same(InputOf(f))

(***************************************************************************)
(* C2: if the directory does not exist, the run ends having printed only   *)
(* the directory-not-found line: rotate_face is never called, no file is   *)
(* created or changed, nothing about u.jpg or d.jpg and no completion      *)
(* message is printed.                                                     *)
(***************************************************************************)
C2_MissingDirectoryStops ==
    (pc # "main" /\ ~DirExists) =>
        /\ pc \in {"check_dir", "done"}
        /\ calls = << >>
        /\ fs = fs0
        /\ out = IF Done THEN << Line("dir_missing", base_path) >> ELSE << >>

C2_Witness ==
    /\ Done
    /\ ~DirExists
    /\ Len(argv) > 0
    /\ dirs # {}
    /\ out = << Line("dir_missing", argv[1]) >>

(***************************************************************************)
(* C3: after a run the only files changed are u_rotated.jpg and            *)
(* d_rotated.jpg of the directory, each only if its face existed and       *)
(* rotate_face returned a path for it; a face that was absent or whose     *)
(* processing raised an error, the save step included, leaves no written   *)
(* or altered file.                                                        *)
(***************************************************************************)
C3_OnlySuccessfulFacesWritten ==
    Done =>
        \A p \in DOMAIN fs \cup DOMAIN fs0 :
            ~Same(p) =>
                \E f \in Faces :
                    /\ p = OutputOf(f)
                    /\ InputOf(f) \in DOMAIN fs0
                    /\ Returned(f).some

(***************************************************************************)
(* C4: when the directory exists, the bottom face is handled by d.jpg      *)
(* alone, whatever happened to the top face: d.jpg present means one call  *)
(* of rotate_face on it, d.jpg absent means its not-found line and no      *)
(* call.  With u.jpg absent and d.jpg present, u_rotated.jpg is left alone *)
(* and the run is complete.                                                *)
(***************************************************************************)
C4_BottomIndependentOfTop ==
    (Done /\ DirExists) =>
        /\ Outcomes("top") # {}
        /\ IF InputOf("bottom") \in DOMAIN fs0
           THEN /\ TimesCalled(InputOf("bottom")) = 1
                /\ LinesAbout("face_missing", InputOf("bottom")) = {}
                /\ saveEnv["bottom"] = "ok" <=>
                       /\ fs0[InputOf("bottom")].kind = "image"
                       /\ OutputOf("bottom") \in DOMAIN fs
                       /\ fs[OutputOf("bottom")] = ImageFile("JPEG", rotate180(BottomImage))
                       /\ Returned("bottom") = Some(OutputOf("bottom"))
           ELSE /\ TimesCalled(InputOf("bottom")) = 0
                /\ Cardinality(LinesAbout("face_missing", InputOf("bottom"))) = 1
        /\ (InputOf("top") \notin DOMAIN fs0 /\ InputOf("bottom") \in DOMAIN fs0) =>
               /\ Same(OutputOf("top"))
               /\ calls = << InputOf("bottom") >>
               /\ Cardinality(LinesAbout("face_missing", InputOf("top"))) = 1
               /\ Cardinality(LinesOf("done")) = 1

C4_Witness ==
    /\ Done
    /\ InputOf("top") \notin DOMAIN fs0
    /\ OutputOf("top") \notin DOMAIN fs
    /\ saveEnv["bottom"] = "ok"
    /\ OutputOf("bottom") \in DOMAIN fs
    /\ OutputOf("bottom") \notin DOMAIN fs0
    /\ LinesOf("done") # {}

(***************************************************************************)
(* C5: every run ends normally, no error leaves main; when the directory   *)
(* exists the completion message is printed, once, and only after both     *)
(* faces have reached a terminal outcome.                                  *)
(***************************************************************************)
Terminal(f) ==
    /\ Cardinality(Outcomes(f)) = 1
    /\ "success" \in Outcomes(f) => RenameLines(f) # {}

C5_CompletesNormally ==
    /\ <>Done
    /\ [](pc # "crashed")
    /\ [](Cardinality(LinesOf("done")) <= 1)
    /\ [](LinesOf("done") # {} => Terminal("top") /\ Terminal("bottom"))
    /\ []((Done /\ DirExists) =>
            /\ Cardinality(LinesOf("done")) = 1
            /\ out[Len(out) - 1].msg = "done")

C5_Witness ==
    /\ Done
    /\ Cardinality(LinesOf("done")) = 1
    /\ Outcomes("top") = {"failure"}
    /\ Outcomes("bottom") = {"absent"}

(***************************************************************************)
(* C6: every file handle and decoded buffer rotate_face acquires is        *)
(* released by the time it returns, on the success path and on every       *)
(* error path; none is open when main goes on to the next face.            *)
(***************************************************************************)
C6_ReleasedOnReturn ==
    pc \in {"top_after", "bottom_check", "bottom_after", "finish", "done"} =>
        handles = {} /\ buffers = {}

(***************************************************************************)
(* C7: rotating by 180 degrees twice gives back the image, pixel for       *)
(* pixel, for every width and height.                                      *)
(***************************************************************************)
C7_DoubleRotationIsIdentity ==
    (pc = "rotate" /\ rotations % 2 = 0) => rotated_img = img

C7_Witness ==
    /\ pc = "rotate" /\ rotations = 2
    /\ img.w = 2 /\ img.h = 1
    /\ Pixel(img, 0, 0) # Pixel(img, 1, 0)
    /\ rotated_img = img

(***************************************************************************)
(* C8: the rotation is the point reflection through the centre: the size   *)
(* is kept and the pixel at (x, y) ends at (w-1-x, h-1-y).                 *)
(***************************************************************************)
C8_PointReflection ==
    (pc = "rotate" /\ rotations = 1) =>
        /\ rotated_img.w = img.w
        /\ rotated_img.h = img.h
        /\ Len(rotated_img.rows) = img.h
        /\ \A y \in 0..(img.h - 1) : Len(rotated_img.rows[y + 1]) = img.w
        /\ \A x \in 0..(img.w - 1), y \in 0..(img.h - 1) :
              Pixel(rotated_img, img.w - 1 - x, img.h - 1 - y) = Pixel(img, x, y)

C8_Witness ==
    /\ pc = "rotate" /\ rotations = 1
    /\ img.w = 2 /\ img.h = 2
    /\ Pixel(img, 0, 0) # Pixel(img, 1, 0)
    /\ Pixel(img, 0, 0) # Pixel(img, 0, 1)
    /\ Pixel(img, 0, 0) # Pixel(img, 1, 1)
    /\ Pixel(rotated_img, 1, 1) = Pixel(img, 0, 0)

(***************************************************************************)
(* C9: the two face operations are independent and order-insensitive: the  *)
(* bottom face processed before the top face leaves the files the run      *)
(* left, and no path is looked at or written by both.                      *)
(***************************************************************************)
C9_OrderInsensitive ==
    (Done /\ DirExists) =>
        /\ fs = FaceOp(FaceOp(fs0, top_face_path, saveEnv["top"]),
                       bottom_face_path, saveEnv["bottom"])
        /\ fs = FaceOp(FaceOp(fs0, bottom_face_path, saveEnv["bottom"]),
                       top_face_path, saveEnv["top"])
        /\ touched["top"] \cap touched["bottom"] = {}

C9_Witness ==
    /\ Done
    /\ saveEnv["top"] = "ok" /\ saveEnv["bottom"] = "ok"
    /\ Cardinality(LinesOf("saved")) = 2
    /\ fs[OutputOf("top")] # fs[OutputOf("bottom")]
    /\ OutputOf("top") \in DOMAIN fs0

(***************************************************************************)
(* C10: when the directory exists each face ends in exactly one of absent, *)
(* success, failure, is attempted at most once, and gets the lines of that *)
(* outcome and no others: absent, one not-found line and no call; success, *)
(* the saved-as line with the output path, then the rename instruction;    *)
(* failure, one error line with the input path and no rename instruction.  *)
(***************************************************************************)
LinesFor(f) ==
    LinesAbout("face_missing", InputOf(f)) \cup LinesAbout("saved", OutputOf(f))
        \cup LinesAbout("error", InputOf(f)) \cup RenameLines(f)

C10_OneOutcomePerFace ==
    /\ \A f \in Faces : TimesCalled(FacePath(f)) <= 1
    /\ (Done /\ DirExists) =>
          /\ Len(calls) <= 2
          /\ LinesFor("top") \cup LinesFor("bottom") = 2..(Len(out) - 2)
          /\ \A f \in Faces :
                /\ Cardinality(Outcomes(f)) = 1
                /\ "absent" \in Outcomes(f) =>
                      /\ Cardinality(LinesFor(f)) = 1
                      /\ TimesCalled(InputOf(f)) = 0
                /\ "success" \in Outcomes(f) =>
                      /\ Cardinality(LinesFor(f)) = 2
                      /\ TimesCalled(InputOf(f)) = 1
                      /\ \E i \in LinesAbout("saved", OutputOf(f)) : i + 1 \in RenameLines(f)
                /\ "failure" \in Outcomes(f) =>
                      /\ Cardinality(LinesFor(f)) = 1
                      /\ TimesCalled(InputOf(f)) = 1
                      /\ RenameLines(f) = {}

C10_Witness ==
    /\ Done
    /\ Outcomes("top") = {"success"}
    /\ Outcomes("bottom") = {"failure"}
    /\ saveEnv["bottom"] = "midwrite"
    /\ OutputOf("bottom") \in DOMAIN fs
    /\ fs[OutputOf("bottom")] = PartialFile

====
